---- MODULE Spec2Model ----
(***************************************************************************)
(* Sports Analytics SaaS API (main.py, schemas.py).                        *)
(*                                                                         *)
(* State: the module-level store handle `db`, the content of the document *)
(* store, and for the request handled last its parameters (req), its      *)
(* reply (resp) and the gateway calls it made (calls).                     *)
(*                                                                         *)
(* Encodings.  Optional[T] is a set: {} is None, {v} is the value v.       *)
(* A Python dict is a function on its keys.  odds and the xG figures are   *)
(* counted in tenths (1.6 is 16).  kickoff_iso and the date parameter are  *)
(* sequences of one-character strings, so that prefixes and patterns are   *)
(* computed.  An equality condition {"k": v} of a filter is written as     *)
(* {"k": {"$eq": v}}, which is the same condition for the store.           *)
(***************************************************************************)
EXTENDS Integers, Sequences, FiniteSets, TLC

VARIABLES db, store, req, resp, calls

vars == <<db, store, req, resp, calls>>

\* ------------------------------------------------------------------ bounds
MaxSeeds == 2
MaxSubscriptions == 1
MaxContacts == 1

\* ------------------------------------------------------------- primitives
None == {}

Some(v) == {v}

Val(o) == CHOOSE v \in o : TRUE

\* Python truthiness of an Optional[int] / Optional[float]
TruthyNum(o) == o # None /\ o # {0}

\* Python truthiness of an Optional[str] held as a TLA+ string
TruthyStr(o) == o # None /\ o # {""}

\* Python truthiness of an Optional[str] held as a sequence of characters
TruthySeq(o) == o # None /\ o # {<<>>}

EmptyDict == [k \in {} |-> {}]

Take(s, n) == IF Len(s) <= n THEN s ELSE SubSeq(s, 1, n)

Collections ==
    {"plan", "blog", "prediction", "testimonial", "legal", "subscription", "contact"}

EmptyStore == [c \in Collections |-> <<>>]

\* --------------------------------------------------------------- schemas
OddsGt == 10
ConfGe == 1
ConfLe == 100
XgGe == 0

Picks ==
    {"home_win", "away_win", "draw", "over_2_5", "under_2_5",
     "both_teams_score", "home_asian", "away_asian"}

Risks == {"low", "medium", "high"}

\* the validation with odds declared ge=1.0 instead of gt=1.0
PredictionValidGe(p) ==
    /\ p.pick \in Picks
    /\ p.odds >= OddsGt
    /\ p.confidence >= ConfGe
    /\ p.confidence <= ConfLe
    /\ p.risk \in Risks
    /\ p.xg_home >= XgGe
    /\ p.xg_away >= XgGe

\* pydantic validation of the constrained fields of Prediction
PredictionValid(p) ==
    /\ p.pick \in Picks
    /\ p.odds > OddsGt
    /\ p.confidence >= ConfGe
    /\ p.confidence <= ConfLe
    /\ p.risk \in Risks
    /\ p.xg_home >= XgGe
    /\ p.xg_away >= XgGe

\* Subscription: email is the only required field
SubscriptionValid(payload) == payload.email # None

SubscriptionDoc(payload) ==
    [email |-> Val(payload.email), source |-> "landing", locale |-> "en"]

\* Contact: name, email and message are required
ContactValid(payload) ==
    payload.name # None /\ payload.email # None /\ payload.message # None

ContactDoc(payload) ==
    [name |-> Val(payload.name), email |-> Val(payload.email),
     message |-> Val(payload.message), topic |-> "general"]

\* ----------------------------------------------------- document gateway
ObjectId(coll, n) == <<coll, n>>

ObjectIdStr(oid) == <<"str">> \o oid

\* create_document: one insert of one document into one collection
create_document(st, coll, doc) ==
    [st EXCEPT ![coll] = Append(@, doc @@ ("_id" :> ObjectId(coll, Len(@) + 1)))]

\* the pattern pat matched at the start of s, one pattern character per
\* character of s; "." is the only metacharacter of the modelled alphabet
\* (digits, "-", ":", "T", "Z", "."), every other character is a literal
RegexMatchHere(pat, s) ==
    /\ Len(pat) <= Len(s)
    /\ \A i \in 1..Len(pat) : pat[i] = "." \/ pat[i] = s[i]

\* $regex: a search, anchored at the start when the pattern begins with "^"
RegexMatch(pat, s) ==
    IF pat # <<>> /\ Head(pat) = "^"
    THEN RegexMatchHere(Tail(pat), s)
    ELSE \E k \in 0..Len(s) : RegexMatchHere(pat, SubSeq(s, k + 1, Len(s)))

OpHolds(op, v, arg) ==
    CASE op = "$eq" -> v = arg
      [] op = "$regex" -> RegexMatch(arg, v)
      [] op = "$gte" -> v >= arg
      [] op = "$lte" -> v <= arg

Match(doc, filt) ==
    \A k \in DOMAIN filt : \A op \in DOMAIN filt[k] : OpHolds(op, doc[k], filt[k][op])

MatchSeq(docs, filt) == SelectSeq(docs, LAMBDA d : Match(d, filt))

\* get_documents: matching documents in store order, truncated at limit
get_documents(st, coll, filt, limit) ==
    IF limit = None THEN MatchSeq(st[coll], filt)
    ELSE Take(MatchSeq(st[coll], filt), Val(limit))

QueryCall(coll, filt, limit) ==
    [fn |-> "get_documents", coll |-> coll, filt |-> filt, limit |-> limit]

CreateCall(coll, ok) == [fn |-> "create_document", coll |-> coll, ok |-> ok]

\* d["_id"] = str(d.get("_id"))
ShapeDoc(d) == [d EXCEPT !["_id"] = ObjectIdStr(@)]

ShapeDocs(docs) == [i \in 1..Len(docs) |-> ShapeDoc(docs[i])]

HTTPException(status, detail) == [status |-> status, detail |-> detail]

Ok(body) == [status |-> 200, body |-> body]

\* ------------------------------------------------------------- demo data
Digits == <<"0", "1", "2", "3", "4", "5", "6", "7", "8", "9">>

TwoDigits(n) == <<Digits[(n \div 10) + 1], Digits[(n % 10) + 1]>>

\* utcnow() + timedelta(hours=h); the modelled instants are whole hours of
\* March 2024 far from the end of the month
AddHours(now, h) ==
    [day |-> now.day + ((now.hour + h) \div 24), hour |-> (now.hour + h) % 24]

\* datetime.isoformat() + "Z"
IsoZ(t) ==
    <<"2", "0", "2", "4", "-", "0", "3", "-">> \o TwoDigits(t.day) \o <<"T">>
        \o TwoDigits(t.hour) \o <<":", "0", "0", ":", "0", "0", "Z">>

SeedPlans ==
    << [code |-> "free", name |-> "Free", monthly_price |-> 0, yearly_price |-> 0,
        currency |-> "USD", features |-> <<"Limited daily picks", "Blog access">>],
       [code |-> "starter", name |-> "Starter", monthly_price |-> 19, yearly_price |-> 180,
        currency |-> "USD",
        features |-> <<"Daily picks", "Confidence & risk labels", "Email alerts">>],
       [code |-> "pro", name |-> "Pro", monthly_price |-> 49, yearly_price |-> 468,
        currency |-> "USD",
        features |-> <<"All leagues", "Advanced stats (xG)", "Priority support",
                       "Telegram alerts">>] >>

BlogSlugs == <<"intro-1", "intro-2", "intro-3", "intro-4", "intro-5", "intro-6">>

SeedBlogs ==
    [i \in 1..6 |->
        [slug |-> BlogSlugs[i], title |-> <<"Data-Driven Football Insights #", i>>,
         excerpt |-> "How we model expected goals and risk.",
         content |-> "<p>Sample blog content for SEO.</p>", language |-> "en"]]

Leagues == <<"Premier League", "La Liga", "Serie A", "Ligue 1", "Bundesliga", "MLS">>

Teams ==
    << <<"Barcelona", "Real Madrid">>, <<"Man City", "Arsenal">>, <<"Bayern", "Dortmund">>,
       <<"PSG", "Lyon">>, <<"Inter", "Juventus">>, <<"LAFC", "Seattle">> >>

MatchIds ==
    <<"M001", "M002", "M003", "M004", "M005", "M006",
      "M007", "M008", "M009", "M010", "M011", "M012">>

SeedPicks == <<"home_win", "away_win", "draw", "over_2_5", "under_2_5">>

SeedRisks == <<"low", "medium", "high">>

\* the keyword arguments of Prediction(...) for i in range(12)
SeedPredictionFields(i, now) ==
    [league |-> Leagues[(i % 6) + 1], country |-> "International",
     match_id |-> MatchIds[i + 1],
     home_team |-> Teams[(i % 6) + 1][1], away_team |-> Teams[(i % 6) + 1][2],
     kickoff_iso |-> IsoZ(AddHours(now, i + 6)),
     pick |-> SeedPicks[(i % 5) + 1],
     odds |-> 16 + (i % 5) * 2,
     confidence |-> 60 + (i % 4) * 5,
     risk |-> SeedRisks[(i % 3) + 1],
     xg_home |-> 12 + (i % 3) * 3, xg_away |-> 9 + (i % 3) * 2,
     status |-> "pending"]

SeedPredictions(now) == [k \in 1..12 |-> SeedPredictionFields(k - 1, now)]

SeedTestimonials ==
    << [name |-> "Carlos", location |-> "Mexico",
        message |-> "Doubled my bankroll with safer picks.", verified |-> TRUE],
       [name |-> "Aicha", location |-> "Senegal",
        message |-> "Great xG insights, very helpful!", verified |-> TRUE] >>

SeedLegal ==
    << [slug |-> "terms", title |-> "Terms of Service", content |-> "<p>Terms...</p>"],
       [slug |-> "privacy", title |-> "Privacy Policy", content |-> "<p>Privacy...</p>"],
       [slug |-> "responsible-betting", title |-> "Responsible Betting",
        content |-> "<p>Play responsibly.</p>"] >>

Tag(coll, docs) == [i \in 1..Len(docs) |-> [coll |-> coll, doc |-> docs[i]]]

\* the create_document calls of the part of seed_demo_content that precedes
\* the construction of the sample predictions
SeedWritesBefore == Tag("plan", SeedPlans) \o Tag("blog", SeedBlogs)

\* the create_document calls from the sample predictions onwards
SeedWritesAfter(now) ==
    Tag("prediction", SeedPredictions(now)) \o Tag("testimonial", SeedTestimonials)
        \o Tag("legal", SeedLegal)

\* the loop with a write that replaces the collection's content
RECURSIVE SeedLoopReplace(_, _, _, _, _)
SeedLoopReplace(acc, items, k, faults, up) ==
    IF k > Len(items) THEN acc
    ELSE LET ok == up /\ (Len(acc.calls) + 1) \notin faults
             nxt == [store |-> IF ok THEN [acc.store EXCEPT ![items[k].coll] =
                                             <<items[k].doc @@ ("_id" :> ObjectId(items[k].coll, 1))>>]
                               ELSE acc.store,
                     created |-> IF ok THEN acc.created + 1 ELSE acc.created,
                     calls |-> Append(acc.calls, CreateCall(items[k].coll, ok))]
         IN SeedLoopReplace(nxt, items, k + 1, faults, up)

\* for x in items: try: create_document(...); created += 1 / except: pass
\* a call fails when the store is not connected, or when its number in the
\* request (1 for the first plan, 26 for the last legal page) is in faults
RECURSIVE SeedLoop(_, _, _, _, _)
SeedLoop(acc, items, k, faults, up) ==
    IF k > Len(items) THEN acc
    ELSE LET ok == up /\ (Len(acc.calls) + 1) \notin faults
             nxt == [store |-> IF ok THEN create_document(acc.store, items[k].coll, items[k].doc)
                               ELSE acc.store,
                     created |-> IF ok THEN acc.created + 1 ELSE acc.created,
                     calls |-> Append(acc.calls, CreateCall(items[k].coll, ok))]
         IN SeedLoop(nxt, items, k + 1, faults, up)

\* ------------------------------------------------------- filter builder
\* conf = {}; if min is not None: conf["$gte"] = min; if max is not None: ...
RangeDict(lo, hi) ==
    (IF lo # None THEN "$gte" :> Val(lo) ELSE EmptyDict)
        @@ (IF hi # None THEN "$lte" :> Val(hi) ELSE EmptyDict)

\* the range test written "min is not None or max is not None"
RangeCondNotNone(field, lo, hi) ==
    IF (lo # None \/ hi # None) /\ RangeDict(lo, hi) # EmptyDict
    THEN field :> RangeDict(lo, hi)
    ELSE EmptyDict

\* if min or max: ...; if conf: filt[field] = conf
RangeCond(field, lo, hi) ==
    IF (TruthyNum(lo) \/ TruthyNum(hi)) /\ RangeDict(lo, hi) # EmptyDict
    THEN field :> RangeDict(lo, hi)
    ELSE EmptyDict

\* the league value compared with the country field
LeagueCondCountry(league) ==
    IF TruthyStr(league) THEN "country" :> ("$eq" :> Val(league)) ELSE EmptyDict

LeagueCond(league) ==
    IF TruthyStr(league) THEN "league" :> ("$eq" :> Val(league)) ELSE EmptyDict

DateCond(date) ==
    IF TruthySeq(date) THEN "kickoff_iso" :> ("$regex" :> (<<"^">> \o Val(date)))
    ELSE EmptyDict

\* the filt dictionary of list_predictions
ListFilter(p) ==
    LeagueCond(p.league) @@ DateCond(p.date)
        @@ RangeCond("confidence", p.min_conf, p.max_conf)
        @@ RangeCond("odds", p.min_odds, p.max_odds)

\* ------------------------------------------------------------- handlers
Unavailable == HTTPException(500, "Database not available")

NotFound == HTTPException(404, "Not found")

\* the probe with a failing collection listing taken for a lost connection
test_databaseListFatal(url, name, listOk) ==
    /\ req' = [op |-> "test_database", DATABASE_URL |-> url, DATABASE_NAME |-> name,
               listOk |-> listOk]
    /\ resp' = Ok([backend |-> "Running",
                   database |-> IF db = "None" THEN "Available but not initialized"
                                ELSE IF listOk THEN "Connected & Working"
                                ELSE "Connected but Error",
                   database_url |-> IF url THEN "Set" ELSE "Not Set",
                   database_name |-> IF name THEN "Set" ELSE "Not Set",
                   connection_status |-> IF db = "None" \/ ~listOk THEN "Not Connected"
                                         ELSE "Connected",
                   collections |-> IF db # "None" /\ listOk
                                   THEN {c \in Collections : store[c] # <<>>}
                                   ELSE {}])
    /\ calls' = IF db = "None" THEN <<>>
                ELSE <<[fn |-> "list_collection_names", ok |-> listOk]>>
    /\ UNCHANGED <<db, store>>

\* GET /test
test_database(url, name, listOk) ==
    /\ req' = [op |-> "test_database", DATABASE_URL |-> url, DATABASE_NAME |-> name,
               listOk |-> listOk]
    /\ resp' = Ok([backend |-> "Running",
                   database |-> IF db = "None" THEN "Available but not initialized"
                                ELSE IF listOk THEN "Connected & Working"
                                ELSE "Connected but Error",
                   database_url |-> IF url THEN "Set" ELSE "Not Set",
                   database_name |-> IF name THEN "Set" ELSE "Not Set",
                   connection_status |-> IF db = "None" THEN "Not Connected" ELSE "Connected",
                   collections |-> IF db # "None" /\ listOk
                                   THEN {c \in Collections : store[c] # <<>>}
                                   ELSE {}])
    /\ calls' = IF db = "None" THEN <<>>
                ELSE <<[fn |-> "list_collection_names", ok |-> listOk]>>
    /\ UNCHANGED <<db, store>>

\* GET /predictions
list_predictions(p) ==
    /\ req' = [op |-> "list_predictions", params |-> p]
    /\ IF db = "None"
       THEN resp' = Unavailable /\ calls' = <<>>
       ELSE LET filt == ListFilter(p)
                docs == get_documents(store, "prediction", filt, Some(p.limit))
            IN /\ resp' = Ok([items |-> ShapeDocs(docs)])
               /\ calls' = <<QueryCall("prediction", filt, Some(p.limit))>>
    /\ UNCHANGED <<db, store>>

\* the lookup with the key left out of the query
GetByKeyUnfiltered(op, coll, key, value) ==
    /\ req' = [op |-> op, key |-> value]
    /\ IF db = "None"
       THEN resp' = Unavailable /\ calls' = <<>>
       ELSE LET docs == get_documents(store, coll, EmptyDict, Some(1))
            IN /\ resp' = IF docs = <<>> THEN NotFound ELSE Ok(ShapeDoc(docs[1]))
               /\ calls' = <<QueryCall(coll, EmptyDict, Some(1))>>
    /\ UNCHANGED <<db, store>>

\* the body shared by get_prediction and get_blog
GetByKey(op, coll, key, value) ==
    /\ req' = [op |-> op, key |-> value]
    /\ IF db = "None"
       THEN resp' = Unavailable /\ calls' = <<>>
       ELSE LET filt == key :> ("$eq" :> value)
                docs == get_documents(store, coll, filt, Some(1))
            IN /\ resp' = IF docs = <<>> THEN NotFound ELSE Ok(ShapeDoc(docs[1]))
               /\ calls' = <<QueryCall(coll, filt, Some(1))>>
    /\ UNCHANGED <<db, store>>

\* the body shared by list_blogs and admin_testimonials
ListAll(op, coll, limit) ==
    /\ req' = [op |-> op, limit |-> limit]
    /\ IF db = "None"
       THEN resp' = Unavailable /\ calls' = <<>>
       ELSE LET docs == get_documents(store, coll, EmptyDict, Some(limit))
            IN /\ resp' = Ok([items |-> ShapeDocs(docs)])
               /\ calls' = <<QueryCall(coll, EmptyDict, Some(limit))>>
    /\ UNCHANGED <<db, store>>

\* GET /predictions/{match_id}
get_prediction(match_id) == GetByKey("get_prediction", "prediction", "match_id", match_id)

\* GET /blogs
list_blogs(limit) == ListAll("list_blogs", "blog", limit)

\* GET /blogs/{slug}
get_blog(slug) == GetByKey("get_blog", "blog", "slug", slug)

\* GET /admin/testimonials
admin_testimonials(limit) == ListAll("admin_testimonials", "testimonial", limit)

FallbackPlans ==
    << [code |-> "free", name |-> "Free", monthly_price |-> 0, yearly_price |-> 0,
        currency |-> "USD"],
       [code |-> "starter", name |-> "Starter", monthly_price |-> 19, yearly_price |-> 180,
        currency |-> "USD"],
       [code |-> "pro", name |-> "Pro", monthly_price |-> 49, yearly_price |-> 468,
        currency |-> "USD"] >>

\* the plans listing without its static fallback
get_plansNoFallback ==
    /\ req' = [op |-> "get_plans"]
    /\ IF db = "None"
       THEN resp' = Unavailable /\ calls' = <<>>
       ELSE LET docs == get_documents(store, "plan", EmptyDict, None)
            IN /\ resp' = Ok([items |-> ShapeDocs(docs)])
               /\ calls' = <<QueryCall("plan", EmptyDict, None)>>
    /\ UNCHANGED <<db, store>>

\* GET /plans
get_plans ==
    /\ req' = [op |-> "get_plans"]
    /\ IF db = "None"
       THEN resp' = Ok([items |-> FallbackPlans]) /\ calls' = <<>>
       ELSE LET docs == get_documents(store, "plan", EmptyDict, None)
            IN /\ resp' = Ok([items |-> ShapeDocs(docs)])
               /\ calls' = <<QueryCall("plan", EmptyDict, None)>>
    /\ UNCHANGED <<db, store>>

FallbackLegal(slug) ==
    IF slug = "terms"
    THEN Ok([slug |-> "terms", title |-> "Terms of Service", content |-> "<p>Terms...</p>"])
    ELSE IF slug = "privacy"
    THEN Ok([slug |-> "privacy", title |-> "Privacy Policy", content |-> "<p>Privacy...</p>"])
    ELSE IF slug = "responsible-betting"
    THEN Ok([slug |-> "responsible-betting", title |-> "Responsible Betting",
             content |-> "<p>Play responsibly.</p>"])
    ELSE NotFound

\* GET /legal/{slug}
get_legal(slug) ==
    /\ req' = [op |-> "get_legal", key |-> slug]
    /\ IF db = "None"
       THEN resp' = FallbackLegal(slug) /\ calls' = <<>>
       ELSE LET filt == "slug" :> ("$eq" :> slug)
                docs == get_documents(store, "legal", filt, Some(1))
            IN /\ resp' = IF docs = <<>> THEN NotFound ELSE Ok(ShapeDoc(docs[1]))
               /\ calls' = <<QueryCall("legal", filt, Some(1))>>
    /\ UNCHANGED <<db, store>>

\* the create with one more attempt after a failed write
CreateOneRetry(op, coll, payload, valid, doc, writeOk) ==
    /\ req' = [op |-> op, payload |-> payload]
    /\ IF ~valid
       THEN resp' = HTTPException(422, "ValidationError") /\ calls' = <<>>
                /\ store' = store
       ELSE LET ok == db # "None" /\ writeOk
            IN /\ calls' = IF ok THEN <<CreateCall(coll, TRUE)>>
                           ELSE <<CreateCall(coll, FALSE), CreateCall(coll, db # "None")>>
               /\ store' = IF db # "None" THEN create_document(store, coll, doc) ELSE store
               /\ resp' = IF db # "None" THEN Ok([ok |-> TRUE])
                          ELSE HTTPException(500, "create_document failed")
    /\ UNCHANGED db

\* the body shared by subscribe and contact: the payload is validated by
\* the framework, then one create_document call inside try/except
CreateOne(op, coll, payload, valid, doc, writeOk) ==
    /\ req' = [op |-> op, payload |-> payload]
    /\ IF ~valid
       THEN resp' = HTTPException(422, "ValidationError") /\ calls' = <<>>
                /\ store' = store
       ELSE LET ok == db # "None" /\ writeOk
            IN /\ calls' = <<CreateCall(coll, ok)>>
               /\ store' = IF ok THEN create_document(store, coll, doc) ELSE store
               /\ resp' = IF ok THEN Ok([ok |-> TRUE])
                          ELSE HTTPException(500, "create_document failed")
    /\ UNCHANGED db

\* POST /subscribe
subscribe(payload, writeOk) ==
    /\ Len(store["subscription"]) < MaxSubscriptions
    /\ CreateOne("subscribe", "subscription", payload, SubscriptionValid(payload),
                 SubscriptionDoc(payload), writeOk)

\* POST /contact
contact(payload, writeOk) ==
    /\ Len(store["contact"]) < MaxContacts
    /\ CreateOne("contact", "contact", payload, ContactValid(payload),
                 ContactDoc(payload), writeOk)

SeedCollections == {"plan", "blog", "prediction", "testimonial", "legal"}

RECURSIVE SumLen(_, _)
SumLen(st, cs) ==
    IF cs = {} THEN 0
    ELSE LET c == CHOOSE x \in cs : TRUE IN Len(st[c]) + SumLen(st, cs \ {c})

\* POST /seed/demo
seed_demo_content(now, faults) ==
    /\ SumLen(store, SeedCollections)
         + Len(SeedWritesBefore) + Len(SeedWritesAfter(now))
         <= MaxSeeds * (Len(SeedWritesBefore) + Len(SeedWritesAfter(now)))
    /\ req' = [op |-> "seed_demo_content", now |-> now, faults |-> faults]
    /\ LET up == db # "None"
           first == SeedLoop([store |-> store, created |-> 0, calls |-> <<>>],
                             SeedWritesBefore, 1, faults, up)
           samples == SeedPredictions(now)
           rest == SeedLoop(first, SeedWritesAfter(now), 1, faults, up)
       IN IF \E k \in 1..Len(samples) : ~PredictionValid(samples[k])
          THEN /\ resp' = HTTPException(500, "ValidationError")
               /\ store' = first.store
               /\ calls' = first.calls
          ELSE /\ resp' = Ok([created |-> rest.created])
               /\ store' = rest.store
               /\ calls' = rest.calls
    /\ UNCHANGED db

\* Prediction(**fields): the model object, or a ValidationError
Prediction(fields) ==
    /\ req' = [op |-> "Prediction", fields |-> fields]
    /\ resp' = IF PredictionValid(fields) THEN Ok(fields)
               ELSE HTTPException(422, "ValidationError")
    /\ calls' = <<>>
    /\ UNCHANGED <<db, store>>

\* ---------------------------------------------------------------- inputs
Noon == [day |-> 5, hour |-> 12]

Nows == {[day |-> 5, hour |-> 2], Noon}

\* which create_document calls of a seed request fail: none, the first
\* prediction, all of them
FaultSets == {{}, {10}, 1..26}

Day5 == <<"2", "0", "2", "4", "-", "0", "3", "-", "0", "5">>

Day6 == <<"2", "0", "2", "4", "-", "0", "3", "-", "0", "6">>

DottedDay5 == <<"2", "0", "2", "4", ".", "0", "3", ".", "0", "5">>

NoParams ==
    [league |-> None, date |-> None, min_odds |-> None, max_odds |-> None,
     min_conf |-> None, max_conf |-> None, limit |-> 20]

\* the query parameters tried in the whole-system specification
FewParams ==
    {[NoParams EXCEPT !.league = l, !.min_conf = c] :
        l \in {None, Some("Serie A")}, c \in {None, Some(65)}}

\* the query parameters tried in the filter specification: every pair of
\* confidence bounds, every pair of odds bounds and every league and date,
\* each with some settings of the other parameters
ConfParams ==
    {[NoParams EXCEPT !.league = l, !.date = d, !.min_conf = a, !.max_conf = b,
                      !.min_odds = o[1], !.max_odds = o[2]] :
        l \in {None, Some("Serie A")}, d \in {None, Some(Day5)},
        a \in {None, Some(0), Some(65)}, b \in {None, Some(0), Some(70)},
        o \in {<<None, None>>, <<Some(18), Some(20)>>}}

OddsParams ==
    {[NoParams EXCEPT !.league = l, !.date = d, !.min_odds = a, !.max_odds = b,
                      !.min_conf = c[1], !.max_conf = c[2]] :
        l \in {None, Some("Serie A")}, d \in {None, Some(Day5)},
        a \in {None, Some(0), Some(18)}, b \in {None, Some(0), Some(20)},
        c \in {<<None, None>>, <<Some(65), Some(70)>>}}

KeyParams ==
    {[NoParams EXCEPT !.league = l, !.date = d, !.min_conf = c, !.limit = n] :
        l \in {None, Some(""), Some("Serie A"), Some("Serie B")},
        d \in {None, Some(<<>>), Some(Day5), Some(Day6), Some(DottedDay5)},
        c \in {None, Some(65)}, n \in {2, 20}}

AllParams == ConfParams \cup OddsParams \cup KeyParams

CandidateFields ==
    {[SeedPredictionFields(0, Noon) EXCEPT !.odds = o] : o \in {9, 10, 11}}
    \cup {[SeedPredictionFields(0, Noon) EXCEPT !.confidence = c] : c \in {0, 1, 100, 101}}
    \cup {[SeedPredictionFields(0, Noon) EXCEPT !.pick = "handicap"]}

MatchIdInputs == {"M001", "M013"}

BlogSlugInputs == {"intro-1", "intro-7"}

LegalSlugInputs == {"terms", "privacy", "responsible-betting", "cookies"}

LimitInputs == {1, 10}

SubscriptionPayloads == [email : {None, Some("not-an-email")}]

ContactPayloads ==
    [name : {Some("Ana")}, email : {Some("a@b.co")}, message : {None, Some("hello")}]

\* ------------------------------------------------------------------ Init
Init ==
    /\ db \in {"None", "Database"}
    /\ store = EmptyStore
    /\ req = [op |-> "startup"]
    /\ resp = [status |-> 0]
    /\ calls = <<>>

Next ==
    \/ \E url \in BOOLEAN, name \in BOOLEAN, listOk \in BOOLEAN : test_database(url, name, listOk)
    \/ \E faults \in FaultSets : seed_demo_content(Noon, faults)
    \/ \E p \in FewParams : list_predictions(p)
    \/ \E m \in MatchIdInputs : get_prediction(m)
    \/ \E n \in LimitInputs : list_blogs(n)
    \/ \E g \in BlogSlugInputs : get_blog(g)
    \/ get_plans
    \/ \E g \in LegalSlugInputs : get_legal(g)
    \/ \E payload \in SubscriptionPayloads, writeOk \in BOOLEAN : subscribe(payload, writeOk)
    \/ \E payload \in ContactPayloads, writeOk \in BOOLEAN : contact(payload, writeOk)
    \/ \E n \in LimitInputs : admin_testimonials(n)
    \/ \E f \in CandidateFields : Prediction(f)

Spec == Init /\ [][Next]_vars

\* the prediction listing over every combination of its parameters, on the
\* stores that seeding produces
FilterNext ==
    \/ \E now \in Nows : seed_demo_content(now, {})
    \/ \E p \in AllParams : list_predictions(p)

SpecFilter == Init /\ [][FilterNext]_vars

\* ---------------------------------------------------------------- claims
ReadOps ==
    {"test_database", "list_predictions", "get_prediction", "list_blogs", "get_blog",
     "get_plans", "get_legal", "admin_testimonials"}

IsPrefix(a, b) == Len(a) <= Len(b) /\ SubSeq(b, 1, Len(a)) = a

Range(f) == {f[i] : i \in DOMAIN f}

\* C1: while db is None, GET /plans answers the fixed three plans and
\* GET /legal/{slug} the fixed page of terms, privacy and
\* responsible-betting (404 for another slug); list predictions, get
\* prediction, list blogs, get blog and list testimonials answer 500
\* "Database not available" without data; none of the seven calls the store.
UnavailableStoreReplies ==
    db = "None" =>
        /\ req.op = "get_plans" =>
              /\ resp.status = 200
              /\ Len(resp.body.items) = 3
              /\ [i \in 1..3 |-> resp.body.items[i].code] = <<"free", "starter", "pro">>
              /\ [i \in 1..3 |-> resp.body.items[i].monthly_price] = <<0, 19, 49>>
              /\ [i \in 1..3 |-> resp.body.items[i].yearly_price] = <<0, 180, 468>>
        /\ req.op = "get_legal" =>
              IF req.key \in {"terms", "privacy", "responsible-betting"}
              THEN /\ resp.status = 200
                   /\ resp.body.slug = req.key
                   /\ resp.body.title =
                        (CASE req.key = "terms" -> "Terms of Service"
                           [] req.key = "privacy" -> "Privacy Policy"
                           [] req.key = "responsible-betting" -> "Responsible Betting")
              ELSE resp.status = 404
        /\ req.op \in {"list_predictions", "get_prediction", "list_blogs", "get_blog",
                       "admin_testimonials"} =>
              /\ resp.status = 500
              /\ resp.detail = "Database not available"
              /\ "body" \notin DOMAIN resp
        /\ req.op \in ReadOps \ {"test_database"} => calls = <<>> /\ store = EmptyStore

UnavailableStoreWitness ==
    /\ db = "None"
    /\ req.op = "get_legal"
    /\ req.key = "privacy"
    /\ resp.status = 200

KeyOf(op) ==
    CASE op = "get_prediction" -> [coll |-> "prediction", key |-> "match_id"]
      [] op = "get_blog" -> [coll |-> "blog", key |-> "slug"]
      [] op = "get_legal" -> [coll |-> "legal", key |-> "slug"]

\* C2: with the store available, a get-by-key operation answers 404 exactly
\* when no stored document has the key and otherwise one document with the
\* requested key; a list operation answers 200, with an empty item list
\* when no document matches its filter.
NotFoundOnlyForLookups ==
    db # "None" =>
        /\ req.op \in {"get_prediction", "get_blog", "get_legal"} =>
              LET k == KeyOf(req.op)
                  present == \E d \in Range(store[k.coll]) : d[k.key] = req.key
              IN /\ resp.status = 404 <=> ~present
                 /\ resp.status # 404 => resp.status = 200 /\ resp.body[k.key] = req.key
        /\ req.op \in {"list_predictions", "list_blogs", "get_plans", "admin_testimonials"} =>
              /\ resp.status = 200
              /\ (\A d \in Range(store[calls[1].coll]) : ~Match(d, calls[1].filt))
                    => resp.body.items = <<>>

NotFoundWitness ==
    /\ db # "None"
    /\ req.op = "get_prediction"
    /\ req.key = "M013"
    /\ resp.status = 404
    /\ Len(store["prediction"]) > 12

ListedOk == db # "None" /\ req.op = "list_predictions"

\* C3 as stated: a zero lower bound leaves the filter as it is without the
\* bound, whatever the other parameters are.
ZeroBoundIsAbsent ==
    ListedOk =>
        /\ req.params.min_conf = Some(0) =>
              calls[1].filt = ListFilter([req.params EXCEPT !.min_conf = None])
        /\ req.params.min_odds = Some(0) =>
              calls[1].filt = ListFilter([req.params EXCEPT !.min_odds = None])

\* C3 amended: a zero lower bound leaves the filter as it is without the
\* bound when the upper bound of the same range is absent or zero; with a
\* non-zero upper bound the range carries the lower bound ">= 0" as well.
ZeroBoundIsAbsentWithoutUpper ==
    ListedOk =>
        /\ (req.params.min_conf = Some(0) /\ ~TruthyNum(req.params.max_conf)) =>
              /\ calls[1].filt = ListFilter([req.params EXCEPT !.min_conf = None])
              /\ "confidence" \notin DOMAIN calls[1].filt
        /\ (req.params.min_conf = Some(0) /\ TruthyNum(req.params.max_conf)) =>
              calls[1].filt["confidence"]
                 = ("$gte" :> 0) @@ ("$lte" :> Val(req.params.max_conf))
        /\ (req.params.min_odds = Some(0) /\ ~TruthyNum(req.params.max_odds)) =>
              /\ calls[1].filt = ListFilter([req.params EXCEPT !.min_odds = None])
              /\ "odds" \notin DOMAIN calls[1].filt
        /\ (req.params.min_odds = Some(0) /\ TruthyNum(req.params.max_odds)) =>
              calls[1].filt["odds"]
                 = ("$gte" :> 0) @@ ("$lte" :> Val(req.params.max_odds))

ZeroBoundWitness ==
    /\ ListedOk
    /\ req.params.min_conf = Some(0)
    /\ req.params.max_conf = None
    /\ req.params.league # None
    /\ resp.status = 200
    /\ resp.body.items # <<>>

\* C4: a range is in the filter exactly when one of its bounds is supplied,
\* a supplied bound is applied inclusively and an absent one not at all, and
\* every returned document satisfies every supplied bound.
RangeIffBoundSupplied ==
    ListedOk =>
        LET p == req.params
            filt == calls[1].filt
        IN /\ "confidence" \in DOMAIN filt <=> (p.min_conf # None \/ p.max_conf # None)
           /\ "odds" \in DOMAIN filt <=> (p.min_odds # None \/ p.max_odds # None)
           /\ "confidence" \in DOMAIN filt =>
                 /\ "$gte" \in DOMAIN filt["confidence"] <=> p.min_conf # None
                 /\ "$lte" \in DOMAIN filt["confidence"] <=> p.max_conf # None
           /\ "odds" \in DOMAIN filt =>
                 /\ "$gte" \in DOMAIN filt["odds"] <=> p.min_odds # None
                 /\ "$lte" \in DOMAIN filt["odds"] <=> p.max_odds # None
           /\ \A d \in Range(resp.body.items) :
                 /\ p.min_conf # None => d.confidence >= Val(p.min_conf)
                 /\ p.max_conf # None => d.confidence <= Val(p.max_conf)
                 /\ p.min_odds # None => d.odds >= Val(p.min_odds)
                 /\ p.max_odds # None => d.odds <= Val(p.max_odds)

\* C5 as stated: an absent parameter adds nothing to the filter, the filter
\* is empty when no parameter is supplied, and a supplied league is a
\* condition of the filter that every returned document meets.
LeagueSuppliedIsExact ==
    ListedOk =>
        LET p == req.params
            filt == calls[1].filt
        IN /\ p.league = None => "league" \notin DOMAIN filt
           /\ p.date = None => "kickoff_iso" \notin DOMAIN filt
           /\ (p.min_conf = None /\ p.max_conf = None) => "confidence" \notin DOMAIN filt
           /\ (p.min_odds = None /\ p.max_odds = None) => "odds" \notin DOMAIN filt
           /\ [p EXCEPT !.limit = 20] = NoParams => filt = EmptyDict
           /\ p.league # None =>
                 /\ "league" \in DOMAIN filt
                 /\ \A d \in Range(resp.body.items) : d.league = Val(p.league)

\* C5 amended: the same for a league that is supplied and not empty; an
\* empty league adds no condition.
LeagueNonEmptyIsExact ==
    ListedOk =>
        LET p == req.params
            filt == calls[1].filt
        IN /\ p.league = None => "league" \notin DOMAIN filt
           /\ p.date = None => "kickoff_iso" \notin DOMAIN filt
           /\ (p.min_conf = None /\ p.max_conf = None) => "confidence" \notin DOMAIN filt
           /\ (p.min_odds = None /\ p.max_odds = None) => "odds" \notin DOMAIN filt
           /\ [p EXCEPT !.limit = 20] = NoParams =>
                 /\ filt = EmptyDict
                 /\ Len(resp.body.items) = Len(Take(store["prediction"], p.limit))
           /\ (p.league # None /\ p.league # Some("")) =>
                 /\ "league" \in DOMAIN filt
                 /\ \A d \in Range(resp.body.items) : d.league = Val(p.league)
                 /\ \A op \in DOMAIN filt["league"] : op = "$eq"
           /\ p.league = Some("") => "league" \notin DOMAIN filt

LeagueWitness ==
    /\ ListedOk
    /\ req.params.league = Some("Serie A")
    /\ req.params.max_conf # None
    /\ req.params.date # None
    /\ resp.body.items # <<>>
    /\ \E d \in Range(store["prediction"]) : d.league # "Serie A"

\* the part of a filter that constrains the kickoff timestamp
KickoffPart(filt) == [k \in DOMAIN filt \cap {"kickoff_iso"} |-> filt[k]]

\* C6: when a date d is supplied, a stored prediction satisfies the kickoff
\* condition exactly when its kickoff_iso begins with d, character for
\* character.
DateIsStringPrefix ==
    (ListedOk /\ req.params.date # None) =>
        \A d \in Range(store["prediction"]) :
            Match(d, KickoffPart(calls[1].filt))
                <=> IsPrefix(Val(req.params.date), d.kickoff_iso)

\* C7: Prediction rejects odds <= 1.0 and confidence outside [1,100] and
\* accepts the bounds 1 and 100, and every stored prediction has odds > 1.0
\* and 1 <= confidence <= 100.
StoredPredictionsValid ==
    /\ req.op = "Prediction" =>
          /\ (req.fields.odds <= 10 \/ req.fields.confidence < 1
                \/ req.fields.confidence > 100) => resp.status = 422
          /\ (req.fields.odds > 10 /\ req.fields.confidence \in 1..100
                /\ req.fields.pick \in Picks) => resp.status = 200
    /\ \A d \in Range(store["prediction"]) : d.odds > 10 /\ d.confidence \in 1..100

StoredPredictionsWitness ==
    /\ req.op = "Prediction"
    /\ req.fields.odds = 10
    /\ resp.status = 422
    /\ store["prediction"] # <<>>

SuccessfulCreates(cs, coll) ==
    Cardinality({i \in 1..Len(cs) :
                    cs[i].fn = "create_document" /\ cs[i].coll = coll /\ cs[i].ok})

\* C8: a step never changes or removes a stored document: every collection
\* keeps its documents and grows by one document per successful create of
\* the request, a successful subscribe or contact adds one document to one
\* collection, and a read leaves every collection as it is.
StoreOnlyGrows ==
    [][ /\ \A c \in Collections :
              /\ IsPrefix(store[c], store'[c])
              /\ Len(store'[c]) = Len(store[c]) + SuccessfulCreates(calls', c)
        /\ req'.op \in ReadOps => store' = store
        /\ (req'.op \in {"subscribe", "contact"} /\ resp'.status = 200) =>
              Cardinality({c \in Collections : store'[c] # store[c]}) = 1
              /\ SumLen(store', Collections) = SumLen(store, Collections) + 1
      ]_vars

StoreGrowsWitness ==
    /\ req.op = "seed_demo_content"
    /\ resp.status = 200
    /\ resp.body.created = 25
    /\ Len(store["prediction"]) = 23
    /\ store["subscription"] # <<>>

\* C9: subscribe and contact call create_document once and never again: the
\* reply is {ok: true} exactly when that call succeeded and one document was
\* added, and a failed call, also with db None, is answered 500 with the
\* store unchanged.
SingleWriteAttempt ==
    [][ req'.op \in {"subscribe", "contact"} =>
          LET coll == IF req'.op = "subscribe" THEN "subscription" ELSE "contact"
              attempts == {i \in 1..Len(calls') : calls'[i].fn = "create_document"}
          IN /\ resp'.status # 422 => Len(calls') = 1 /\ attempts = {1}
             /\ Cardinality(attempts) <= 1
             /\ resp'.status = 200 <=> (attempts = {1} /\ calls'[1].ok)
             /\ resp'.status = 200 =>
                   /\ resp'.body = [ok |-> TRUE]
                   /\ Len(store'[coll]) = Len(store[coll]) + 1
                   /\ \A c \in Collections \ {coll} : store'[c] = store[c]
             /\ (attempts = {1} /\ ~calls'[1].ok) => resp'.status = 500 /\ store' = store
             /\ db = "None" => resp'.status # 200 /\ store' = store
      ]_vars

SingleWriteWitness ==
    /\ req.op = "contact"
    /\ db # "None"
    /\ resp.status = 500
    /\ Len(calls) = 1
    /\ store["subscription"] # <<>>

\* C10: the health probe always answers with a report; the report gives the
\* configuration facts from the environment and the connection fact from db,
\* each whatever the other is, and a failing collection listing is reported
\* with the connection still reported as connected.
HealthNeverFails ==
    req.op = "test_database" =>
        /\ resp.status = 200
        /\ resp.body.database_url = "Set" <=> req.DATABASE_URL
        /\ resp.body.database_name = "Set" <=> req.DATABASE_NAME
        /\ resp.body.connection_status = "Connected" <=> db # "None"
        /\ resp.body.connection_status \in {"Connected", "Not Connected"}
        /\ (db # "None" /\ ~req.listOk) =>
              /\ resp.body.database = "Connected but Error"
              /\ resp.body.connection_status = "Connected"
              /\ resp.body.collections = {}
        /\ (db # "None" /\ req.listOk) => resp.body.database = "Connected & Working"

HealthWitness ==
    /\ req.op = "test_database"
    /\ db # "None"
    /\ ~req.listOk
    /\ ~req.DATABASE_URL
    /\ resp.body.connection_status = "Connected"
    /\ store["legal"] # <<>>

====
